---- MODULE Spec2Model ----
(***************************************************************************)
(* The bounded-concurrency enrichment pipeline of                          *)
(* add-async-extended-descriptions.py: process_csv_async fans out one      *)
(* get_extended_description coroutine per input row under a semaphore,     *)
(* each coroutine posts to the model endpoint with up to three attempts    *)
(* and parses the reply text, and the results are merged into the table.   *)
(* A second specification hands raw replies to the reply parsers on their  *)
(* own: the two-field parser of the async and of the sync script and       *)
(* get_suggested_score of the two-pass script.                             *)
(*                                                                         *)
(* Python strings are modelled as sequences of one-character strings, so   *)
(* that the empty string is << >> and the text operations (strip, split,   *)
(* startswith, csv.reader, int) are computed character by character.  A    *)
(* Python int n used as a score is modelled as the one-element sequence    *)
(* <<n>>, so that it can be compared with the empty string the code uses   *)
(* for an absent score.                                                    *)
(***************************************************************************)
EXTENDS Integers, Sequences, FiniteSets, TLC

----------------------------------------------------------------------------
(* Text primitives (Python str methods used by the scripts).               *)

\* The empty string: the value the code uses for an absent score.
EmptyStr == << >>

\* A Python int as a score value.
PyIntValue(n) == <<n>>

\* Characters str.strip() removes (the whitespace of the modelled alphabet).
Whitespace == {" ", "\n"}

\* The backtick character (TLA+ strings cannot hold it).
BackTick == "BT"

\* Characters the fence strip removes: backtick, newline, space.

FenceChars == {BackTick, "\n", " "}

UpperChars == <<"A", "B", "C", "D", "E", "F", "G", "H", "I", "J", "K", "L", "M", "N", "O", "P", "Q", "R", "S", "T", "U", "V", "W", "X", "Y", "Z">>
LowerChars == <<"a", "b", "c", "d", "e", "f", "g", "h", "i", "j", "k", "l", "m", "n", "o", "p", "q", "r", "s", "t", "u", "v", "w", "x", "y", "z">>
DigitChars == <<"0", "1", "2", "3", "4", "5", "6", "7", "8", "9">>

IsDigit(c) == \E k \in 1..Len(DigitChars) : DigitChars[k] = c
DigitValue(c) == (CHOOSE k \in 1..Len(DigitChars) : DigitChars[k] = c) - 1

LowerChar(c) ==
    IF \E k \in 1..Len(UpperChars) : UpperChars[k] = c
    THEN LowerChars[CHOOSE k \in 1..Len(UpperChars) : UpperChars[k] = c]
    ELSE c

\* str.lower()
Lower(s) == [k \in 1..Len(s) |-> LowerChar(s[k])]

RECURSIVE LStripSet(_, _)
LStripSet(s, cs) ==
    IF s # << >> /\ Head(s) \in cs THEN LStripSet(Tail(s), cs) ELSE s

RECURSIVE RStripSet(_, _)
RStripSet(s, cs) ==
    IF s # << >> /\ s[Len(s)] \in cs
    THEN RStripSet(SubSeq(s, 1, Len(s) - 1), cs)
    ELSE s

\* str.strip(chars)
StripSet(s, cs) == RStripSet(LStripSet(s, cs), cs)

\* str.strip()
Strip(s) == StripSet(s, Whitespace)

\* str.startswith / str.endswith
StartsWith(s, p) == Len(s) >= Len(p) /\ SubSeq(s, 1, Len(p)) = p
EndsWith(s, p) == Len(s) >= Len(p) /\ SubSeq(s, Len(s) - Len(p) + 1, Len(s)) = p

\* c in s
Contains(s, c) == \E k \in 1..Len(s) : s[k] = c

\* s.find(c) + 1 for a character known to occur
FirstIndex(s, c) == CHOOSE k \in 1..Len(s) : s[k] = c /\ \A j \in 1..(k - 1) : s[j] # c

RECURSIVE JoinFields(_, _)
\* sep.join(fields)
JoinFields(fields, sep) ==
    IF fields = << >> THEN << >>
    ELSE IF Len(fields) = 1 THEN fields[1]
    ELSE fields[1] \o sep \o JoinFields(Tail(fields), sep)

RECURSIVE DecimalDigits(_)
\* str(n) for n >= 0
DecimalDigits(n) ==
    IF n < 10 THEN <<DigitChars[n + 1]>>
    ELSE Append(DecimalDigits(n \div 10), DigitChars[(n % 10) + 1])

----------------------------------------------------------------------------
(* int(s): surrounding whitespace is ignored, one optional sign, then      *)
(* digits in which single underscores may separate digits.                 *)

IntBody(s) == LET t == Strip(s) IN
    IF t # << >> /\ Head(t) \in {"+", "-"} THEN Tail(t) ELSE t

IntNegative(s) == LET t == Strip(s) IN t # << >> /\ Head(t) = "-"

IntParses(s) == LET b == IntBody(s) IN
    /\ b # << >>
    /\ \A k \in 1..Len(b) : IsDigit(b[k]) \/ b[k] = "_"
    /\ IsDigit(b[1]) /\ IsDigit(b[Len(b)])
    /\ \A k \in 1..(Len(b) - 1) : ~(b[k] = "_" /\ b[k + 1] = "_")

RECURSIVE DigitsValue(_, _)
DigitsValue(b, acc) ==
    IF b = << >> THEN acc
    ELSE IF Head(b) = "_" THEN DigitsValue(Tail(b), acc)
    ELSE DigitsValue(Tail(b), 10 * acc + DigitValue(Head(b)))

IntOf(s) == IF IntNegative(s) THEN 0 - DigitsValue(IntBody(s), 0)
            ELSE DigitsValue(IntBody(s), 0)

\* try: score = int(raw)  except Exception: score = EmptyStr
CoerceScore(raw) == IF IntParses(raw) THEN PyIntValue(IntOf(raw)) ELSE EmptyStr

----------------------------------------------------------------------------
(* csv.reader(io.StringIO(text)) with the default dialect: comma as        *)
(* delimiter, double-quote as quotechar, doublequote, not strict.  The     *)
(* state machine of the reader is fed the characters of each line and then *)
(* an end-of-line mark; StringIO ends a line after every newline.  (Texts  *)
(* with CR or NUL are outside the modelled alphabet.)                      *)

EOL == "EOL"

CsvStart == [st |-> "START_RECORD", field |-> << >>, row |-> << >>, rows |-> << >>]

CsvSaveField(p) == [p EXCEPT !.row = Append(@, p.field), !.field = << >>]

\* The record is complete: the reader returns the fields collected so far.
CsvEmit(p) == [st |-> "START_RECORD", field |-> << >>, row |-> << >>,
               rows |-> Append(p.rows, p.row)]

CsvAddChar(p, c, st) == [p EXCEPT !.field = Append(@, c), !.st = st]

CsvFeed(p, c) ==
    CASE p.st \in {"START_RECORD", "START_FIELD"} ->
            IF c = EOL
            THEN IF p.st = "START_RECORD" THEN CsvEmit(p)
                 ELSE CsvEmit(CsvSaveField(p))
            ELSE IF c = "\n"
            THEN IF p.st = "START_RECORD" THEN [p EXCEPT !.st = "EAT_CRNL"]
                 ELSE [CsvSaveField(p) EXCEPT !.st = "EAT_CRNL"]
            ELSE IF c = "\"" THEN [p EXCEPT !.st = "IN_QUOTED_FIELD"]
            ELSE IF c = "," THEN [CsvSaveField(p) EXCEPT !.st = "START_FIELD"]
            ELSE CsvAddChar(p, c, "IN_FIELD")
      [] p.st = "IN_FIELD" ->
            IF c = EOL THEN CsvEmit(CsvSaveField(p))
            ELSE IF c = "\n" THEN [CsvSaveField(p) EXCEPT !.st = "EAT_CRNL"]
            ELSE IF c = "," THEN [CsvSaveField(p) EXCEPT !.st = "START_FIELD"]
            ELSE CsvAddChar(p, c, "IN_FIELD")
      [] p.st = "IN_QUOTED_FIELD" ->
            IF c = EOL THEN p
            ELSE IF c = "\"" THEN [p EXCEPT !.st = "QUOTE_IN_QUOTED_FIELD"]
            ELSE CsvAddChar(p, c, "IN_QUOTED_FIELD")
      [] p.st = "QUOTE_IN_QUOTED_FIELD" ->
            IF c = "\"" THEN CsvAddChar(p, c, "IN_QUOTED_FIELD")
            ELSE IF c = "," THEN [CsvSaveField(p) EXCEPT !.st = "START_FIELD"]
            ELSE IF c = EOL THEN CsvEmit(CsvSaveField(p))
            ELSE IF c = "\n" THEN [CsvSaveField(p) EXCEPT !.st = "EAT_CRNL"]
            ELSE CsvAddChar(p, c, "IN_FIELD")
      [] p.st = "EAT_CRNL" ->
            IF c = EOL THEN CsvEmit(p)
            ELSE IF c = "\n" THEN p
            ELSE [p EXCEPT !.st = "ERROR"]

\* The input is exhausted: a pending field or an open quoted field is
\* returned as a last record.
CsvFinish(p) ==
    IF p.field # << >> \/ p.st = "IN_QUOTED_FIELD"
    THEN CsvEmit(CsvSaveField(p)).rows
    ELSE p.rows

\* A reader error ends the iteration with an exception, which the parser
\* swallows: the rows returned before it are all the loop has seen.
RECURSIVE CsvRun(_, _, _)
CsvRun(p, text, k) ==
    IF p.st = "ERROR" THEN p.rows
    ELSE IF k > Len(text)
    THEN IF text # << >> /\ text[Len(text)] # "\n"
         THEN CsvFinish(CsvFeed(p, EOL))
         ELSE CsvFinish(p)
    ELSE LET q == CsvFeed(p, text[k]) IN
         CsvRun(IF text[k] = "\n" THEN CsvFeed(q, EOL) ELSE q, text, k + 1)

\* list(csv.reader(io.StringIO(text)))
CsvRows(text) == CsvRun(CsvStart, text, 1)

----------------------------------------------------------------------------
(* The reply parser of get_extended_description.                           *)

CodeFence == <<BackTick, BackTick, BackTick>>
HeaderToken == <<"s", "u", "g", "g", "e", "s", "t", "e", "d">>

\* A text that starts and ends with a triple-backtick fence is stripped of
\* backticks, newlines and spaces at both ends.
StripFences(text) ==
    IF StartsWith(text, CodeFence) /\ EndsWith(text, CodeFence)
    THEN StripSet(text, FenceChars)
    ELSE text

\* row[0].lower().strip().startswith(HeaderToken)
IsHeaderRow(row) == StartsWith(Strip(Lower(row[1])), HeaderToken)

\* The rows the loop does not skip and returns from: non-empty, not a
\* header row, at least two fields.
IsDataRow(row) == row # << >> /\ ~IsHeaderRow(row) /\ Len(row) >= 2

\* Mutant: the description of a two-field row is not stripped.
RowDescriptionUntrimmed(row) ==
    IF Len(row) > 2
    THEN JoinFields([k \in 1..(Len(row) - 1) |-> Strip(row[k + 1])], <<",">>)
    ELSE row[2]

\* Mutant: the fields after the second are dropped.
RowDescriptionFirstOnly(row) == Strip(row[2])

\* desc = row[1].strip(); with more than two fields, the stripped fields
\* 1..end joined with commas.
RowDescription(row) ==
    IF Len(row) > 2
    THEN JoinFields([k \in 1..(Len(row) - 1) |-> Strip(row[k + 1])], <<",">>)
    ELSE Strip(row[2])

\* return score, desc  for the row the loop stops at
RowResult(row) == <<CoerceScore(Strip(row[1])), RowDescription(row)>>

\* The fallbacks after the csv loop found no such row.
FallbackResult(text) ==
    IF Contains(text, ",")
    THEN LET k == FirstIndex(text, ",") IN
         <<CoerceScore(Strip(SubSeq(text, 1, k - 1))),
           Strip(SubSeq(text, k + 1, Len(text)))>>
    ELSE <<EmptyStr, text>>

\* Mutant: the first row that is neither empty nor a header ends the loop,
\* also when it has one field.
ParseTextFirstRowOnly(text) ==
    LET rows == CsvRows(text)
        cands == {k \in 1..Len(rows) : rows[k] # << >> /\ ~IsHeaderRow(rows[k])}
        first == CHOOSE k \in cands : \A j \in cands : k <= j
    IN  IF cands # {} /\ Len(rows[first]) >= 2
        THEN RowResult(rows[first])
        ELSE FallbackResult(text)

\* The text after fence stripping, parsed: the (score, description) tuple.
ParseText(text) ==
    LET rows == CsvRows(text)
        hits == {k \in 1..Len(rows) : IsDataRow(rows[k])}
    IN  IF hits # {}
        THEN RowResult(rows[CHOOSE k \in hits : \A j \in hits : k <= j])
        ELSE FallbackResult(text)

ParseReply(text) == ParseText(StripFences(text))

\* Where the parser returned from: the csv loop, the split at the first
\* comma, or the last return with the whole text.
ParsePath(text) ==
    IF \E k \in 1..Len(CsvRows(text)) : IsDataRow(CsvRows(text)[k]) THEN "csv"
    ELSE IF Contains(text, ",") THEN "split"
    ELSE "whole"

\* The parser of the async script, handed text = await resp.text().
ParseAsync(text) == [value |-> ParseReply(text), path |-> ParsePath(StripFences(text))]

\* The parser of add-extended-descriptions.py, handed the response member
\* of the body: text = r.json().get(...).strip(), then the same statements.
ParseSync(response) ==
    [value |-> ParseReply(Strip(response)), path |-> ParsePath(StripFences(Strip(response)))]

----------------------------------------------------------------------------
(* get_suggested_score of add-extended-descriptions_two-pass.py: the reply  *)
(* is expected to be one integer field.                                    *)

\* 1 <= score <= 20
InScoreRange(score) == 1 <= score /\ score <= 20

\* The rows of the csv loop that are neither empty nor a header row and
\* whose first field, stripped, is accepted by int(): the loop returns at
\* the first of them and continues over all others.
IsScoreRow(row) == row # << >> /\ ~IsHeaderRow(row) /\ IntParses(Strip(row[1]))

\* return score if it is in range, the empty string otherwise
RangeChecked(score) == IF InScoreRange(score) THEN PyIntValue(score) ELSE EmptyStr

\* The pattern of the re.search call is a raw string with doubled
\* backslashes: it matches a backslash, the letter b, a backslash, one or
\* two letters d (the group holds the backslash and the d), a backslash,
\* the letter b.
ReLiteral(n) ==
    <<"\\", "b", "\\">> \o [k \in 1..n |-> "d"] \o <<"\\", "b">>

ReMatchesAt(text, k, n) ==
    k + Len(ReLiteral(n)) - 1 <= Len(text)
    /\ SubSeq(text, k, k + Len(ReLiteral(n)) - 1) = ReLiteral(n)

\* m = re.search(pattern, text): the leftmost match, the quantifier greedy.
ReHasMatch(text) == \E k \in 1..Len(text) : \E n \in {1, 2} : ReMatchesAt(text, k, n)

\* m.group(1) of the leftmost match
ReGroup(text) ==
    LET k == CHOOSE j \in 1..Len(text) :
                 /\ \E n \in {1, 2} : ReMatchesAt(text, j, n)
                 /\ \A i \in 1..(j - 1) : \A n \in {1, 2} : ~ReMatchesAt(text, i, n)
        n == IF ReMatchesAt(text, k, 2) THEN 2 ELSE 1
    IN  <<"\\">> \o [j \in 1..n |-> "d"]

\* The fallback after the csv loop: int(m.group(1)) in a try block, the
\* score when it is in range, the empty string at the end of the function.
ScoreFallback(text) ==
    IF ReHasMatch(text) /\ IntParses(ReGroup(text))
    THEN RangeChecked(IntOf(ReGroup(text)))
    ELSE EmptyStr

\* The text after stripping, parsed.
SuggestedScoreOf(text) ==
    LET rows == CsvRows(text)
        hits == {k \in 1..Len(rows) : IsScoreRow(rows[k])}
    IN  IF hits # {}
        THEN RangeChecked(IntOf(Strip(rows[CHOOSE k \in hits : \A j \in hits : k <= j][1])))
        ELSE ScoreFallback(text)

\* get_suggested_score for the response member of the body
GetSuggestedScore(response) == SuggestedScoreOf(StripFences(Strip(response)))

----------------------------------------------------------------------------
(* The endpoint.  A body of the generate API is a JSON object whose        *)
(* response member holds the raw reply of the model.                       *)

JsonPrefix == <<"{", "\"", "r", "e", "s", "p", "o", "n", "s", "e", "\"", ":", "\"">>
JsonSuffix == <<"\"", ",", "\"", "d", "o", "n", "e", "\"", ":", "t", "r", "u", "e", "}">>

RECURSIVE JsonEscape(_)
JsonEscape(s) ==
    IF s = << >> THEN << >>
    ELSE (CASE Head(s) = "\"" -> <<"\\", "\"">>
            [] Head(s) = "\\" -> <<"\\", "\\">>
            [] Head(s) = "\n" -> <<"\\", "n">>
            [] OTHER -> <<Head(s)>>) \o JsonEscape(Tail(s))

\* The body the endpoint sends for a raw reply.
JsonBody(raw) == JsonPrefix \o JsonEscape(raw) \o JsonSuffix

RECURSIVE JsonStringEnd(_, _)
\* Index of the quote that closes the JSON string starting at k, 0 if none.
JsonStringEnd(s, k) ==
    IF k > Len(s) THEN 0
    ELSE IF s[k] = "\\" THEN JsonStringEnd(s, k + 2)
    ELSE IF s[k] = "\"" THEN k
    ELSE JsonStringEnd(s, k + 1)

RECURSIVE JsonUnescape(_)
JsonUnescape(s) ==
    IF s = << >> THEN << >>
    ELSE IF Head(s) = "\\" /\ Len(s) >= 2
    THEN <<IF s[2] = "n" THEN "\n" ELSE s[2]>> \o JsonUnescape(SubSeq(s, 3, Len(s)))
    ELSE <<Head(s)>> \o JsonUnescape(Tail(s))

\* response.json() succeeds and the object has a response member.
IsJsonBody(body) ==
    /\ StartsWith(body, JsonPrefix)
    /\ LET e == JsonStringEnd(body, Len(JsonPrefix) + 1) IN
       e > 0 /\ SubSeq(body, e, Len(body)) = JsonSuffix

\* The response member of response.json(), as data.get reads it.
JsonResponse(body) ==
    JsonUnescape(SubSeq(body, Len(JsonPrefix) + 1,
                        JsonStringEnd(body, Len(JsonPrefix) + 1) - 1))

\* What one HTTP exchange can end in: an exception raised by the client
\* (exc, msg = str(e)), or a response with a status and a body.
HttpResponse(status, body) == [exc |-> "none", msg |-> << >>, status |-> status, body |-> body]
HttpFailure(exc, msg) == [exc |-> exc, msg |-> msg, status |-> 0, body |-> << >>]
NoResponse == HttpResponse(0, << >>)

\* The raw reply of the model for a privilege: score 7 and a description
\* that names the privilege and holds a comma, as a quoted CSV record.
ReplyCsv(priv_name) ==
    <<"7", ",", "\"">> \o priv_name
      \o <<" ", "a", "l", "l", "o", "w", "s", " ", "r", "e", "a", "d", ",", " ", "b", "r", "o", "a", "d", "l", "y">>
      \o <<"\"">>

HeaderLine == <<"s", "u", "g", "g", "e", "s", "t", "e", "d", "_", "p", "r", "i", "v", "i", "l", "e", "g", "e", "_", "s", "c", "o", "r", "e", ",", "e", "x", "t", "e", "n", "d", "e", "d", "_", "d", "e", "s", "c", "r", "i", "p", "t", "i", "o", "n">>

\* The behaviours of the endpoint, by name.
EndpointBehaviours ==
    {"timeout", "refused", "http500", "empty200", "json_csv", "plain_csv", "json_empty"}

\* The outcome of one exchange for a request about priv_name.
Exchange(behaviour, priv_name) ==
    CASE behaviour = "timeout" -> HttpFailure("TimeoutError", << >>)
      [] behaviour = "refused" ->
            HttpFailure("ClientConnectorError",
                        <<"C", "a", "n", "n", "o", "t", " ", "c", "o", "n", "n", "e", "c", "t">>)
      [] behaviour = "http500" -> HttpResponse(500, <<"b", "u", "s", "y">>)
      [] behaviour = "empty200" -> HttpResponse(200, << >>)
      [] behaviour = "json_csv" -> HttpResponse(200, JsonBody(ReplyCsv(priv_name)))
      [] behaviour = "plain_csv" ->
            HttpResponse(200, HeaderLine \o <<"\n">> \o ReplyCsv(priv_name))
      [] behaviour = "json_empty" -> HttpResponse(200, JsonBody(<< >>))

----------------------------------------------------------------------------
(* get_extended_description: one attempt and the handling of its failure.  *)

MAX_CONCURRENT_REQUESTS == 2

\* Mutant: range(2).
TwoAttempts == 3 - 1

\* for attempt in range(3)
MaxAttempts == 3

ErrorPrefix == <<"E", "R", "R", "O", "R", " ", "a", "f", "t", "e", "r", " ", "r", "e", "t", "r", "i", "e", "s", ":", " ">>
OllamaErrorPrefix == <<"O", "l", "l", "a", "m", "a", " ", "e", "r", "r", "o", "r", " ">>

\* The classes the scripts see raised, all subclasses of Exception.
ExceptionClasses == {"TimeoutError", "ClientConnectorError", "RuntimeError", "ValueError"}

\* Mutant: except RuntimeError as e.
CaughtIfRuntimeError(excType) == excType = "RuntimeError"

\* except Exception as e
CaughtByExcept(excType) == excType \in ExceptionClasses

\* Mutant: if attempt == 1.
IsSecondAttempt(attempt) == attempt = 1

\* if attempt == 2
IsLastAttempt(attempt) == attempt = 2

\* Mutant: await asyncio.sleep(1).
BackoffConstant(attempt) == 1

\* await asyncio.sleep(1 + attempt)
BackoffSeconds(attempt) == 1 + attempt

\* return (EmptyStr, ErrorPrefix + str(e))
ErrorResult(msg) == <<EmptyStr, ErrorPrefix \o msg>>

\* The function falls off the end of the for loop: None.
PyNone == <<"None">>

\* The body of the try block for the response r of session.post: either an
\* exception is raised (type, msg) or a value is returned.  text is what
\* the parser is handed.
Raised(excType, msg) == [raised |-> TRUE, type |-> excType, msg |-> msg,
                         text |-> << >>, value |-> PyNone]
Returned(text, value) == [raised |-> FALSE, type |-> "none", msg |-> << >>,
                          text |-> text, value |-> value]

\* text = await resp.text()
ResponseText(r) == r.body

TryAttempt(r) ==
    IF r.exc # "none" THEN Raised(r.exc, r.msg)
    ELSE IF r.status # 200
    THEN Raised("RuntimeError",
                OllamaErrorPrefix \o DecimalDigits(r.status) \o <<":", " ">> \o r.body)
    ELSE Returned(ResponseText(r), ParseReply(ResponseText(r)))

----------------------------------------------------------------------------
(* The tables.  A table is its column list and its rows, each row a        *)
(* function from column name to cell.                                      *)

required_cols == {"privilege_type", "privilege_name", "privilege_description", "privilege_score"}

desired_cols == <<"privilege_type", "privilege_name", "privilege_description",
                  "privilege_score", "suggested_privilege_score", "extended_description">>

Range(f) == {f[k] : k \in DOMAIN f}

\* Largest number of rows of an input table whose requests may also fail.
MaxRows == 3

\* Number of rows of the input table of the run against an endpoint that
\* always answers.
CapRows == 5

PrivNames == <<
    <<"U", "s", "e", "r", ".", "R", "e", "a", "d">>,
    <<"M", "a", "i", "l", ".", "S", "e", "n", "d">>,
    <<"C", "h", "a", "t", ".", "R", "e", "a", "d">>,
    <<"T", "e", "a", "m", ".", "C", "r", "e", "a", "t", "e">>,
    <<"F", "i", "l", "e", "s", ".", "R", "e", "a", "d">>,
    <<"G", "r", "o", "u", "p", ".", "R", "e", "a", "d">>,
    <<"S", "i", "t", "e", "s", ".", "R", "e", "a", "d">>,
    <<"T", "a", "s", "k", "s", ".", "R", "e", "a", "d">> >>

CanonicalLayout == <<"privilege_type", "privilege_name", "privilege_description", "privilege_score">>

\* Column lists of the input files: in order, reordered with extra columns
\* (one of them named like an output column), and with required columns
\* missing.
Layouts == {
    CanonicalLayout,
    <<"privilege_score", "note", "privilege_name", "privilege_type", "privilege_description">>,
    <<"extended_description", "privilege_type", "privilege_name", "privilege_description", "privilege_score">>,
    <<"privilege_type", "privilege_name", "privilege_description">>,
    <<"privilege_description", "privilege_score", "note">> }

\* Every ordering of a column list.
ColumnOrders(cols) ==
    {p \in [1..Len(cols) -> Range(cols)] : \A c \in Range(cols) : \E k \in 1..Len(cols) : p[k] = c}

\* The input files that have the required columns in any order, alone or
\* with one more column.
OrderedLayouts ==
    ColumnOrders(CanonicalLayout) \cup ColumnOrders(Append(CanonicalLayout, "note"))

InputCell(i, col) ==
    CASE col = "privilege_type" -> IF i % 2 = 1 THEN "scp" ELSE "roles"
      [] col = "privilege_name" -> PrivNames[i]
      [] col = "privilege_score" -> PyIntValue(5)
      [] OTHER -> <<"x">>

\* pd.read_csv(input_csv) of a file with these columns and n rows
InputTable(layout, n) ==
    [cols |-> layout,
     rows |-> [i \in 1..n |-> [col \in Range(layout) |-> InputCell(i, col)]]]

NoTable == [cols |-> << >>, rows |-> << >>]

\* Mutant: only the columns the loop reads are required.
HasReadColumns(cols) == {"privilege_type", "privilege_name"} \subseteq Range(cols)

\* required_cols.issubset(df.columns)
HasRequiredColumns(cols) == required_cols \subseteq Range(cols)

\* df[col] = values: the column is added at the end, or overwritten in place.
AssignColumn(t, col, values) ==
    [cols |-> IF col \in Range(t.cols) THEN t.cols ELSE Append(t.cols, col),
     rows |-> [i \in 1..Len(t.rows) |->
                 [c \in Range(t.cols) \cup {col} |->
                     IF c = col THEN values[i] ELSE t.rows[i][c]]]]

\* Mutant: the table is written as it is after the two assignments.
SelectNothing(t, cols) == t

\* Mutant: the selection also drops the rows that got no score.
SelectColumnsOfScoredRows(t, cols) ==
    LET kept == SelectSeq(t.rows, LAMBDA r : r["suggested_privilege_score"] # EmptyStr)
    IN  [cols |-> cols,
         rows |-> [i \in 1..Len(kept) |-> [c \in Range(cols) |-> kept[i][c]]]]

\* df[desired_cols]
SelectColumns(t, cols) ==
    [cols |-> cols,
     rows |-> [i \in 1..Len(t.rows) |-> [c \in Range(cols) |-> t.rows[i][c]]]]

\* isinstance(r, tuple) and len(r) == 2
IsPair(r) == Len(r) = 2

\* The loop that splits results into the two column lists.
SplitScores(rs) == [k \in 1..Len(rs) |-> IF IsPair(rs[k]) THEN rs[k][1] ELSE EmptyStr]
SplitDescriptions(rs) ==
    [k \in 1..Len(rs) |-> IF IsPair(rs[k]) THEN rs[k][2] ELSE <<"N", "o", "n", "e">>]

\* Mutant: the results are returned in completion order.
GatherInCompletionOrder(done) == [k \in 1..Len(done) |-> done[k][2]]

\* tqdm_asyncio.gather(*tasks): the (index, result) pairs collected in
\* completion order, sorted by index, results only.
GatherResults(done) ==
    [k \in 1..Len(done) |->
        done[CHOOSE j \in 1..Len(done) :
                Cardinality({m \in 1..Len(done) : done[m][1] < done[j][1]}) = k - 1][2]]

----------------------------------------------------------------------------
(* State.                                                                  *)

VARIABLES
    mainPc,     \* where process_csv_async is
    df,         \* the input table as read
    endpoint,   \* the behaviours the endpoint shows in this run
    session,    \* the aiohttp.ClientSession: none, open, closed
    probes,     \* health-check requests sent by test_model
    semaphore,  \* value of asyncio.Semaphore(MAX_CONCURRENT_REQUESTS)
    tasks,      \* the get_extended_description coroutines, by row position
    completed,  \* (index, result) pairs in completion order, inside gather
    results,    \* what gather returned
    output,     \* the table written by to_csv
    modelReply, \* a raw reply of the model handed to one of the parsers
    call,       \* the parser that was called on it
    parseResult \* what that parser returned

vars == <<mainPc, df, endpoint, session, probes, semaphore, tasks, completed, results, output,
          modelReply, call, parseResult>>

\* A coroutine created by get_extended_description(session, priv_type,
\* priv_name, semaphore): its arguments, where it is, its loop variable,
\* the requests it has posted, the backoff sleeps it has taken, the last
\* exchange, the text handed to the parser and what it returned.
NewTask(row) ==
    [priv_type |-> row["privilege_type"], priv_name |-> row["privilege_name"],
     pc |-> "created", attempt |-> 0, posts |-> 0, slept |-> << >>,
     resp |-> NoResponse, text |-> << >>, ret |-> PyNone]

\* The runs: every layout with at most one row against every behaviour of
\* the endpoint; longer tables against an endpoint that times out, answers
\* with an empty body or answers; one table of CapRows rows against an
\* endpoint that always answers.
Runs ==
    {[layout |-> l, n |-> n, endpoint |-> EndpointBehaviours] : l \in Layouts, n \in 0..1}
    \cup {[layout |-> CanonicalLayout, n |-> n,
           endpoint |-> {"timeout", "empty200", "json_csv"}] : n \in 2..MaxRows}
    \cup {[layout |-> CanonicalLayout, n |-> CapRows, endpoint |-> {"json_csv"}]}
    \cup {[layout |-> l, n |-> 1, endpoint |-> {"json_csv"}] : l \in OrderedLayouts}

\* The runs of the liveness check: as above, without the empty body in
\* the longer tables and without the table of CapRows rows.
FairRuns ==
    {run \in Runs : run.n <= 1}
    \cup {[layout |-> CanonicalLayout, n |-> n,
           endpoint |-> {"timeout", "json_csv"}] : n \in 2..MaxRows}

\* No parser has been called.
NotParsed == [value |-> PyNone, path |-> "none"]

\* The state when process_csv_async has read the input of one of the runs.
InitOf(runs) ==
    \E run \in runs :
        /\ df = InputTable(run.layout, run.n)
        /\ endpoint = run.endpoint
        /\ mainPc = "start"
        /\ session = "none"
        /\ probes = 0
        /\ semaphore = 0
        /\ tasks = << >>
        /\ completed = << >>
        /\ results = << >>
        /\ output = NoTable
        /\ modelReply = << >>
        /\ call = "none"
        /\ parseResult = NotParsed

Init == InitOf(Runs)

FairInit == InitOf(FairRuns)

----------------------------------------------------------------------------
(* process_csv_async up to the gather.                                     *)

\* if not required_cols.issubset(df.columns): raise ValueError
Validate ==
    /\ mainPc = "start"
    /\ mainPc' = IF HasRequiredColumns(df.cols) THEN "validated" ELSE "validation_error"
    /\ UNCHANGED <<df, endpoint, session, probes, semaphore, tasks, completed, results, output,
                   modelReply, call, parseResult>>

\* async with aiohttp.ClientSession() as session
OpenSession ==
    /\ mainPc = "validated"
    /\ session' = "open"
    /\ mainPc' = "session_open"
    /\ UNCHANGED <<df, endpoint, probes, semaphore, tasks, completed, results, output,
                   modelReply, call, parseResult>>

ModelName == <<"c", "o", "d", "e", "l", "l", "a", "m", "a">>

\* test_model: raise_for_status, response.json(), a non-empty stripped
\* response member; anything else is an exception and sys.exit(1).
ProbeOk(r) ==
    /\ r.exc = "none"
    /\ r.status < 400
    /\ IsJsonBody(r.body)
    /\ Strip(JsonResponse(r.body)) # << >>

\* Every exchange the endpoint can have with the program, tabulated: the
\* behaviour, the privilege the request is about (the model name for the
\* probe), the outcome, what the try block of get_extended_description and
\* what test_model make of it.
Exchanges ==
    {[behaviour |-> b, priv_name |-> n, resp |-> Exchange(b, n),
      attempt |-> TryAttempt(Exchange(b, n)), probe_ok |-> ProbeOk(Exchange(b, n))] :
        b \in EndpointBehaviours, n \in Range(PrivNames) \cup {ModelName}}

ExchangesOf(behaviours, priv_name) ==
    {x \in Exchanges : x.behaviour \in behaviours /\ x.priv_name = priv_name}

\* Mutant: the session is not closed when the block is left.
KeepSession(s) == s

\* The end of the async with block closes the session.
CloseSession(s) == "closed"

\* ok = test_model(); SystemExit leaves the async with, closing the session.
TestModel ==
    /\ mainPc = "session_open"
    /\ \E x \in ExchangesOf(endpoint, ModelName) :
          IF x.probe_ok
          THEN mainPc' = "model_ok" /\ session' = session
          ELSE mainPc' = "exited" /\ session' = CloseSession(session)
    /\ probes' = probes + 1
    /\ UNCHANGED <<df, endpoint, semaphore, tasks, completed, results, output,
                   modelReply, call, parseResult>>

\* semaphore = asyncio.Semaphore(...); the loop over df.iterrows() that
\* appends one coroutine per row; the call of gather.
ScheduleAll ==
    /\ mainPc = "model_ok"
    /\ IF {"privilege_type", "privilege_name"} \subseteq Range(df.cols)
       THEN /\ tasks' = [i \in 1..Len(df.rows) |-> NewTask(df.rows[i])]
            /\ semaphore' = MAX_CONCURRENT_REQUESTS
            /\ mainPc' = "gathering"
            /\ session' = session
       ELSE /\ mainPc' = "crashed"
            /\ session' = "closed"
            /\ UNCHANGED <<tasks, semaphore>>
    /\ UNCHANGED <<df, endpoint, probes, completed, results, output,
                   modelReply, call, parseResult>>

----------------------------------------------------------------------------
(* get_extended_description, one coroutine per row.                        *)

\* Mutant: the acquire lets one coroutine too many in.
CanAcquireAtZero(value) == value >= 0

\* Semaphore.acquire does not suspend while the value is positive.
CanAcquire(value) == value > 0

\* Mutant: leaving the section does not give the slot back.
SemReleaseLeak(value) == value

\* async with semaphore: entry and exit
SemAcquire(value) == value - 1
SemRelease(value) == value + 1

\* Mutant: the sleep gives the slot back.
ReleasedForSleep(value) == value + 1

\* The backoff sleep is inside the async with semaphore block.
HeldAcrossSleep(value) == value

InSection(t) == t.pc \in {"in_flight", "sleeping"}

\* The coroutine posts its request: session.post(OLLAMA_URL, json=payload)
Post(t) == [t EXCEPT !.pc = "in_flight", !.posts = @ + 1]

\* The coroutine returns value: the async with releases the semaphore and
\* gather collects the result.
Return(i, t, value) ==
    /\ tasks' = [tasks EXCEPT ![i] = [t EXCEPT !.pc = "done", !.ret = value]]
    /\ semaphore' = SemRelease(semaphore)
    /\ completed' = Append(completed, <<i, value>>)
    /\ UNCHANGED <<mainPc, session>>

\* An exception leaves the coroutine: the semaphore is released, gather
\* raises it into process_csv_async, which leaves the async with.
Propagate(i, t) ==
    /\ tasks' = [tasks EXCEPT ![i] = [t EXCEPT !.pc = "raised"]]
    /\ semaphore' = SemRelease(semaphore)
    /\ mainPc' = "crashed"
    /\ session' = "closed"
    /\ UNCHANGED completed

\* The event loop starts the coroutine: it runs to its first suspension,
\* the acquire when the semaphore is taken, the post otherwise.
Start(i) ==
    /\ mainPc = "gathering"
    /\ tasks[i].pc = "created"
    /\ IF CanAcquire(semaphore)
       THEN /\ tasks' = [tasks EXCEPT ![i] = Post(@)]
            /\ semaphore' = SemAcquire(semaphore)
       ELSE /\ tasks' = [tasks EXCEPT ![i].pc = "waiting"]
            /\ semaphore' = semaphore
    /\ UNCHANGED <<mainPc, df, endpoint, session, probes, completed, results, output,
                   modelReply, call, parseResult>>

\* A waiting coroutine gets the semaphore and posts.
Acquire(i) ==
    /\ mainPc = "gathering"
    /\ tasks[i].pc = "waiting"
    /\ CanAcquire(semaphore)
    /\ tasks' = [tasks EXCEPT ![i] = Post(@)]
    /\ semaphore' = SemAcquire(semaphore)
    /\ UNCHANGED <<mainPc, df, endpoint, session, probes, completed, results, output,
                   modelReply, call, parseResult>>

\* The exchange of the current attempt ends, and the coroutine runs to its
\* next suspension: it returns, or it goes to sleep before the next attempt.
Respond(i) ==
    /\ mainPc = "gathering"
    /\ tasks[i].pc = "in_flight"
    /\ \E x \in ExchangesOf(endpoint, tasks[i].priv_name) :
          LET a == x.attempt
              t == [tasks[i] EXCEPT !.resp = x.resp, !.text = a.text]
          IN  IF ~a.raised THEN Return(i, t, a.value)
              ELSE IF ~CaughtByExcept(a.type) THEN Propagate(i, t)
              ELSE IF IsLastAttempt(t.attempt) THEN Return(i, t, ErrorResult(a.msg))
              ELSE /\ tasks' = [tasks EXCEPT ![i] =
                          [t EXCEPT !.pc = "sleeping",
                                    !.slept = Append(@, BackoffSeconds(t.attempt))]]
                   /\ semaphore' = HeldAcrossSleep(semaphore)
                   /\ UNCHANGED <<mainPc, session, completed>>
    /\ UNCHANGED <<df, endpoint, probes, results, output,
                   modelReply, call, parseResult>>

\* The sleep ends: the next iteration of the for loop posts again, or the
\* loop is over and the function returns None.
Wake(i) ==
    /\ mainPc = "gathering"
    /\ tasks[i].pc = "sleeping"
    /\ IF tasks[i].attempt + 1 < MaxAttempts
       THEN /\ tasks' = [tasks EXCEPT ![i] = Post([@ EXCEPT !.attempt = @ + 1])]
            /\ UNCHANGED <<mainPc, session, semaphore, completed>>
       ELSE Return(i, tasks[i], PyNone)
    /\ UNCHANGED <<df, endpoint, probes, results, output,
                   modelReply, call, parseResult>>

----------------------------------------------------------------------------
(* process_csv_async from the gather on.                                   *)

\* Mutant: the gather returns when the first coroutine has resolved.
AnyResolved(ts) == ts = << >> \/ \E i \in 1..Len(ts) : ts[i].pc = "done"

\* gather returns when every coroutine has resolved.
AllResolved(ts) == \A i \in 1..Len(ts) : ts[i].pc = "done"

\* results = await tqdm_asyncio.gather(*tasks), then the end of the
\* async with block.
GatherDone ==
    /\ mainPc = "gathering"
    /\ AllResolved(tasks)
    /\ results' = GatherResults(completed)
    /\ session' = CloseSession(session)
    /\ mainPc' = "gathered"
    /\ UNCHANGED <<df, endpoint, probes, semaphore, tasks, completed, output,
                   modelReply, call, parseResult>>

\* The two new columns, the check of the column set, the selection in the
\* fixed order and to_csv.  A column of another length than the table is
\* a ValueError of pandas.
MergeAndWrite ==
    /\ mainPc = "gathered"
    /\ LET scores == SplitScores(results)
           descs == SplitDescriptions(results)
       IN  IF Len(scores) # Len(df.rows)
           THEN mainPc' = "crashed" /\ output' = output
           ELSE LET merged == AssignColumn(
                                 AssignColumn(df, "suggested_privilege_score", scores),
                                 "extended_description", descs)
                IN  IF \E k \in 1..Len(desired_cols) : desired_cols[k] \notin Range(merged.cols)
                    THEN mainPc' = "schema_error" /\ output' = output
                    ELSE /\ output' = SelectColumns(merged, desired_cols)
                         /\ mainPc' = "written"
    /\ UNCHANGED <<df, endpoint, session, probes, semaphore, tasks, completed, results,
                   modelReply, call, parseResult>>

Next ==
    \/ Validate
    \/ OpenSession
    \/ TestModel
    \/ ScheduleAll
    \/ \E i \in 1..Len(tasks) : Start(i)
    \/ \E i \in 1..Len(tasks) : Acquire(i)
    \/ \E i \in 1..Len(tasks) : Respond(i)
    \/ \E i \in 1..Len(tasks) : Wake(i)
    \/ GatherDone
    \/ MergeAndWrite

Spec == Init /\ [][Next]_vars

\* The event loop runs a coroutine that can run, every exchange ends (the
\* per-attempt timeout), and process_csv_async goes on when it can.
FairSpec == FairInit /\ [][Next]_vars /\ WF_vars(Next)

----------------------------------------------------------------------------
(* The parsers on their own: a raw reply of the model is handed to the     *)
(* parser of the async script, to the parser of the sync script or to      *)
(* get_suggested_score of the two-pass script.                             *)

\* Longest reply, in tokens, of the replies built from every sequence of
\* tokens.
MaxTokens == 3

\* Pieces of replies: scores in and out of range, a word, the delimiter,
\* the quote, white space, a fence, the header token, a label, and the
\* text the pattern of the numeric fallback matches.
ReplyTokens == {
    <<"7">>, <<"2", "5">>, <<"0">>, <<"o", "k">>, <<",">>, <<"\"">>, <<" ">>, <<"\n">>,
    CodeFence, HeaderToken, <<"S", "c", "o", "r", "e", ":">>, ReLiteral(1) }

RECURSIVE TokenStrings(_)
\* The concatenations of n tokens.
TokenStrings(n) ==
    IF n = 0 THEN {<< >>}
    ELSE {t \o r : t \in ReplyTokens, r \in TokenStrings(n - 1)}

RECURSIVE CsvQuoteBody(_)
CsvQuoteBody(s) ==
    IF s = << >> THEN << >>
    ELSE (IF Head(s) = "\"" THEN <<"\"", "\"">> ELSE <<Head(s)>>) \o CsvQuoteBody(Tail(s))

\* A field as the prompt asks for it: enclosed in double quotes, the double
\* quotes inside it doubled.
CsvQuote(s) == <<"\"">> \o CsvQuoteBody(s) \o <<"\"">>

\* Descriptions a reply may carry: with a comma, with white space around
\* it, with quotes, with a newline, empty, one word.
Descriptions == {
    <<"A", "l", "l", "o", "w", "s", " ", "r", "e", "a", "d", " ", "a", "c", "c", "e", "s", "s", ",", " ", "b", "r", "o", "a", "d", "l", "y">>,
    <<" ", " ", "R", "e", "a", "d", " ", "m", "a", "i", "l", " ">>,
    <<"A", "c", "t", "s", " ", "a", "s", " ", "\"", "a", "d", "m", "i", "n", "\"">>,
    <<"R", "e", "a", "d", "s", " ", "f", "i", "l", "e", "s", ",", "\n", "w", "r", "i", "t", "e", "s", " ", "n", "o", "n", "e">>,
    << >>,
    <<"o", "k">> }

\* Scores the prompt asks for.
ValidScores == {1, 7, 20}

\* The reply the prompt asks for: the header line or not, the score, the
\* quoted description, a final newline or not.
ValidRecord(header, score, desc, newline) ==
    (IF header THEN HeaderLine \o <<"\n">> ELSE << >>)
      \o DecimalDigits(score) \o <<",">> \o CsvQuote(desc)
      \o (IF newline THEN <<"\n">> ELSE << >>)

ValidRecords ==
    {ValidRecord(h, sc, d, nl) : h \in BOOLEAN, sc \in ValidScores, d \in Descriptions, nl \in BOOLEAN}

\* Fields of a description written without quotes around its commas.
LooseFields == {<<"A", "l", "l", "o", "w", "s", " ", "r", "e", "a", "d">>, <<" ", "b", "r", "o", "a", "d", "l", "y">>, <<"a", "s", " ", "a", "d", "m", "i", "n", " ">>}

\* First fields of such a line: a score, and a word int() rejects.
LooseScores == {<<"7">>, <<"h", "i", "g", "h">>}

\* A reply whose data line has an unquoted description of two or three
\* fields after the score field.
LooseRecord(header, first, fields) ==
    (IF header THEN HeaderLine \o <<"\n">> ELSE << >>)
      \o first \o <<",">> \o JoinFields(fields, <<",">>)

\* The lists of two or three such fields.
LooseFieldLists ==
    {<<a, b>> : a \in LooseFields, b \in LooseFields}
    \cup {<<a, b, c>> : a \in LooseFields, b \in LooseFields, c \in LooseFields}

LooseRecords ==
    {LooseRecord(h, f, fs) : h \in BOOLEAN, f \in LooseScores, fs \in LooseFieldLists}

\* Most lines of the replies built line by line.
MaxLines == 3

\* Lines of a reply: a word, nothing, the header line, the header token
\* alone, and three records of two fields.
ReplyLines == {
    <<"o", "k">>, << >>, HeaderLine, HeaderToken,
    <<"7", ",", "o", "k">>, <<"1", "2", ",", "\"", "a", ",", " ", "b", "\"">>, <<"h", "i", "g", "h", ",", "l", "o", "w">> }

RECURSIVE LineLists(_)
\* The lists of n lines.
LineLists(n) ==
    IF n = 0 THEN {<< >>}
    ELSE {<<l>> \o ls : l \in ReplyLines, ls \in LineLists(n - 1)}

\* The replies of one line or more, the lines separated by newlines.
LineReplies ==
    UNION {{JoinFields(ls, <<"\n">>) : ls \in LineLists(n)} : n \in 1..MaxLines}

\* The replies handed to the parsers.
Replies ==
    UNION {TokenStrings(n) : n \in 0..MaxTokens}
    \cup ValidRecords \cup LooseRecords \cup LineReplies

ParserInit ==
    /\ modelReply \in Replies
    /\ call = "none"
    /\ parseResult = NotParsed
    /\ mainPc = "not_started"
    /\ df = NoTable
    /\ endpoint = {}
    /\ session = "none"
    /\ probes = 0
    /\ semaphore = 0
    /\ tasks = << >>
    /\ completed = << >>
    /\ results = << >>
    /\ output = NoTable

\* The statements after text = await resp.text() of the async script.
CallParseAsync ==
    /\ call = "none"
    /\ call' = "async"
    /\ parseResult' = ParseAsync(modelReply)
    /\ UNCHANGED <<modelReply, mainPc, df, endpoint, session, probes, semaphore, tasks,
                   completed, results, output>>

\* The statements after r.raise_for_status() of the sync script.
CallParseSync ==
    /\ call = "none"
    /\ call' = "sync"
    /\ parseResult' = ParseSync(modelReply)
    /\ UNCHANGED <<modelReply, mainPc, df, endpoint, session, probes, semaphore, tasks,
                   completed, results, output>>

\* The statements after r.raise_for_status() of get_suggested_score.
CallGetSuggestedScore ==
    /\ call = "none"
    /\ call' = "score"
    /\ parseResult' = [value |-> GetSuggestedScore(modelReply), path |-> "score"]
    /\ UNCHANGED <<modelReply, mainPc, df, endpoint, session, probes, semaphore, tasks,
                   completed, results, output>>

ParserNext ==
    \/ CallParseAsync
    \/ CallParseSync
    \/ CallGetSuggestedScore

ParserSpec == ParserInit /\ [][ParserNext]_vars

----------------------------------------------------------------------------
(* Properties.                                                             *)

Rows == 1..Len(df.rows)
Coroutines == 1..Len(tasks)

\* The exchange did not give the coroutine a response with status 200.
ExchangeFailed(r) == r.exc # "none" \/ r.status # 200

\* str(e) of the exception the failed exchange r raised in the coroutine.
CauseOf(r) ==
    IF r.exc # "none" THEN r.msg
    ELSE <<"O", "l", "l", "a", "m", "a", " ", "e", "r", "r", "o", "r", " ">>
           \o DecimalDigits(r.status) \o <<":", " ">> \o r.body

IsErrorResult(ret) ==
    /\ IsPair(ret)
    /\ ret[1] = << >>
    /\ StartsWith(ret[2], <<"E", "R", "R", "O", "R", " ", "a", "f", "t", "e", "r", " ", "r", "e", "t", "r", "i", "e", "s", ":", " ">>)

\* Failed attempts of a coroutine so far: each backoff sleep follows one,
\* and so does a return after a failed exchange.
FailedAttempts(t) ==
    Len(t.slept) + (IF t.pc = "done" /\ ExchangeFailed(t.resp) THEN 1 ELSE 0)

\* p occurs in s
Mentions(s, p) == \E k \in 1..(Len(s) - Len(p) + 1) : SubSeq(s, k, k + Len(p) - 1) = p

\* C1: the run never ends in an error after validation and the health
\* check, and the written table has one row per input row, with the
\* privilege_name of the input row at the same position.
C1_OneRowPerInputRow ==
    /\ mainPc \notin {"crashed", "schema_error"}
    /\ mainPc = "written" =>
          /\ Len(output.rows) = Len(df.rows)
          /\ \A i \in Rows :
                output.rows[i]["privilege_name"] = df.rows[i]["privilege_name"]

\* A table of at least three rows is written whose rows ended in the three
\* ways: all retries failed, the last fallback of the parser, a parsed row.
C1_Witness ==
    /\ mainPc = "written"
    /\ Len(output.rows) >= 3
    /\ \E i, j, k \in Coroutines :
          /\ IsErrorResult(tasks[i].ret)
          /\ ~ExchangeFailed(tasks[j].resp) /\ tasks[j].resp.body = << >>
          /\ ~ExchangeFailed(tasks[k].resp) /\ tasks[k].resp.body # << >>

\* C2: the number of coroutines inside the semaphore section never exceeds
\* MAX_CONCURRENT_REQUESTS.
C2_InFlightWithinCap ==
    Cardinality({i \in Coroutines : InSection(tasks[i])}) <= MAX_CONCURRENT_REQUESTS

\* Five requests are scheduled, two are in flight and a third one waits.
C2_Witness ==
    /\ Len(tasks) >= 5
    /\ Cardinality({i \in Coroutines : tasks[i].pc = "in_flight"}) = 2
    /\ \E i \in Coroutines : tasks[i].pc = "waiting"

\* C3: after the gather, the result at position i is what the coroutine of
\* row i returned, that coroutine was built from row i, the reply it parsed
\* was the reply to its own request, and the written row i carries it.
C3_ResultsByPosition ==
    mainPc \in {"gathered", "written"} =>
        /\ Len(results) = Len(df.rows)
        /\ \A i \in Rows :
              /\ tasks[i].priv_name = df.rows[i]["privilege_name"]
              /\ tasks[i].priv_type = df.rows[i]["privilege_type"]
              /\ results[i] = tasks[i].ret
              /\ (/\ ~ExchangeFailed(tasks[i].resp)
                  /\ Mentions(tasks[i].resp.body, tasks[i].priv_name))
                    => Mentions(results[i][2], df.rows[i]["privilege_name"])
              /\ mainPc = "written" =>
                    /\ output.rows[i]["suggested_privilege_score"] = tasks[i].ret[1]
                    /\ output.rows[i]["extended_description"] = tasks[i].ret[2]

\* The table is written after the requests completed in another order than
\* the rows, with different results.
C3_Witness ==
    /\ mainPc = "written"
    /\ \E a, b \in 1..Len(completed) :
          /\ a < b
          /\ completed[a][1] > completed[b][1]
          /\ completed[a][2] # completed[b][2]

\* C4: once the gather has started, the batch eventually is written with
\* one result per input row and every coroutine resolved.
C4_BatchCompletes ==
    (mainPc = "gathering") ~>
        (/\ mainPc = "written"
         /\ Len(results) = Len(df.rows)
         /\ Len(output.rows) = Len(df.rows)
         /\ \A i \in Coroutines : tasks[i].pc = "done")

\* More rows than slots, a row failed on all attempts, and a sibling
\* resolved after it; the table is written.
C4_Witness ==
    /\ mainPc = "written"
    /\ Len(tasks) > MAX_CONCURRENT_REQUESTS
    /\ \E a, b \in 1..Len(completed) :
          /\ a < b
          /\ IsErrorResult(completed[a][2])
          /\ ~IsErrorResult(completed[b][2])

\* C5: no coroutine posts more than 3 requests, and one whose exchanges all
\* failed has posted exactly 3 and returned an empty score with the
\* description ERROR after retries: followed by the cause of the third.
C5_ThreeAttemptsThenError ==
    \A i \in Coroutines :
        /\ tasks[i].posts <= 3
        /\ (tasks[i].pc = "done" /\ ExchangeFailed(tasks[i].resp)) =>
              /\ tasks[i].posts = 3
              /\ tasks[i].ret =
                    << << >>,
                       <<"E", "R", "R", "O", "R", " ", "a", "f", "t", "e", "r", " ", "r", "e", "t", "r", "i", "e", "s", ":", " ">>
                         \o CauseOf(tasks[i].resp) >>

\* A coroutine has returned after three failed exchanges, the third one a
\* response with status 500.
C5_Witness ==
    \E i \in Coroutines :
        /\ tasks[i].pc = "done"
        /\ tasks[i].posts = 3
        /\ tasks[i].resp.status = 500
        /\ IsErrorResult(tasks[i].ret)

\* C6: a coroutine that has returned after exactly two failed attempts has
\* posted a third request, got a response with status 200 to it, and
\* returned the parse of that response, which is no error result.
C6_ThirdAttemptSuccess ==
    \A i \in Coroutines :
        (tasks[i].pc = "done" /\ FailedAttempts(tasks[i]) = 2) =>
            /\ tasks[i].posts = 3
            /\ ~ExchangeFailed(tasks[i].resp)
            /\ tasks[i].ret = ParseReply(tasks[i].resp.body)
            /\ ~IsErrorResult(tasks[i].ret)

\* A coroutine slept twice and returned the parse of a non-empty reply.
C6_Witness ==
    \E i \in Coroutines :
        /\ tasks[i].pc = "done"
        /\ tasks[i].slept = <<1, 2>>
        /\ ~ExchangeFailed(tasks[i].resp)
        /\ tasks[i].resp.body # << >>
        /\ tasks[i].ret[2] # << >>

\* C7: a coroutine whose last exchange was a response with another status
\* than 200 or with an empty body has used all 3 attempts and returned the
\* error result, not a parsed one.
C7_EmptyOrErrorStatusIsFailure ==
    \A i \in Coroutines :
        (/\ tasks[i].pc = "done"
         /\ tasks[i].resp.exc = "none"
         /\ (tasks[i].resp.status # 200 \/ tasks[i].resp.body = << >>)) =>
            /\ tasks[i].posts = 3
            /\ IsErrorResult(tasks[i].ret)

\* C8: no coroutine ends by raising, every coroutine that ended returned a
\* pair, and process_csv_async is never left by a row's exception.
C8_AlwaysResolvesToPair ==
    /\ mainPc # "crashed"
    /\ \A i \in Coroutines :
          /\ tasks[i].pc # "raised"
          /\ tasks[i].pc = "done" => IsPair(tasks[i].ret)

\* The table is written although a row timed out on its last attempt.
C8_Witness ==
    /\ mainPc = "written"
    /\ \E i \in Coroutines :
          /\ tasks[i].resp.exc = "TimeoutError"
          /\ Len(tasks[i].slept) = 2
          /\ IsPair(tasks[i].ret)

\* C9: the text handed to the parser for a response whose body is a JSON
\* object with a response member is the value of that member.
C9_ParserGetsResponseField ==
    \A i \in Coroutines :
        (/\ tasks[i].pc = "done"
         /\ ~ExchangeFailed(tasks[i].resp)
         /\ IsJsonBody(tasks[i].resp.body)) =>
            tasks[i].text = JsonResponse(tasks[i].resp.body)

\* C10: in a run whose input lacks one of the four required columns, no
\* session is opened, no probe is sent and no coroutine is created.
C10_ValidationBeforeNetwork ==
    (\E c \in {"privilege_type", "privilege_name", "privilege_description", "privilege_score"} :
        c \notin Range(df.cols)) =>
        /\ mainPc \in {"start", "validation_error"}
        /\ session = "none"
        /\ probes = 0
        /\ tasks = << >>

\* The validation error was raised for a table that has rows.
C10_Witness ==
    /\ mainPc = "validation_error"
    /\ Len(df.rows) > 0
    /\ "privilege_score" \notin Range(df.cols)

\* C11: the score the two-field parser returns is absent or an integer in
\* 1..20: a score field that is not a number or is out of that range never
\* gives the out-of-range integer.
C11_ScoreAbsentUnlessInRange ==
    call \in {"async", "sync"} =>
        \/ parseResult.value[1] = << >>
        \/ Len(parseResult.value[1]) = 1 /\ parseResult.value[1][1] \in 1..20

\* C12: for a reply that is the header line or not, a score, a comma and
\* the quoted description, the two-field parser returns that score as an
\* integer and the description with the white space at its ends removed,
\* from the csv loop.
C12_ValidRecordParsed ==
    \A h \in BOOLEAN, sc \in {1, 7, 20}, d \in Descriptions, nl \in BOOLEAN :
        (call \in {"async", "sync"} /\ modelReply = ValidRecord(h, sc, d, nl)) =>
            /\ parseResult.value = << <<sc>>, Strip(d) >>
            /\ parseResult.path = "csv"

\* The reply of the example, header line included, was parsed to score 7
\* and the description without its quotes.
C12_Witness ==
    /\ call = "async"
    /\ modelReply = <<"s", "u", "g", "g", "e", "s", "t", "e", "d", "_", "p", "r", "i", "v", "i", "l", "e", "g", "e", "_", "s", "c", "o", "r", "e", ",", "e", "x", "t", "e", "n", "d", "e", "d", "_", "d", "e", "s", "c", "r", "i", "p", "t", "i", "o", "n">> \o <<"\n">> \o <<"7", ",", "\"", "A", "l", "l", "o", "w", "s", " ", "r", "e", "a", "d", " ", "a", "c", "c", "e", "s", "s", ",", " ", "b", "r", "o", "a", "d", "l", "y", "\"">>
    /\ parseResult.value = << <<7>>, <<"A", "l", "l", "o", "w", "s", " ", "r", "e", "a", "d", " ", "a", "c", "c", "e", "s", "s", ",", " ", "b", "r", "o", "a", "d", "l", "y">> >>
    /\ parseResult.path = "csv"

\* C13: for a reply without any comma (and without backticks), the parser
\* of the async script returns an absent score and the whole reply with
\* the white space at its ends removed, from its last return.
C13_NoDelimiterGivesTrimmedText ==
    (call = "async" /\ ~Contains(modelReply, ",") /\ ~Contains(modelReply, BackTick)) =>
        /\ parseResult.value = << << >>, Strip(modelReply) >>
        /\ parseResult.path = "whole"

\* The score the claim expects for a first field of the loose records.
ExpectedLooseScore(first) == IF first = <<"7">> THEN <<7>> ELSE << >>

\* C14 as amended: for a reply whose data line has a first field and two or
\* three more unquoted fields, the two-field parser returns the score
\* coerced from the first field and one description: the other fields,
\* each with the white space at its ends removed, joined with commas.
C14_ExtraFieldsTrimmedAndRejoined ==
    \A h \in BOOLEAN, f \in LooseScores, fs \in LooseFieldLists :
        (call \in {"async", "sync"} /\ modelReply = LooseRecord(h, f, fs)) =>
            /\ parseResult.value[1] = ExpectedLooseScore(f)
            /\ parseResult.value[2] = JoinFields([k \in 1..Len(fs) |-> Strip(fs[k])], <<",">>)
            /\ parseResult.path = "csv"

\* A line with three fields after the score was parsed: all three are in
\* the description.
C14_Witness ==
    /\ call = "async"
    /\ modelReply = <<"7", ",", "A", "l", "l", "o", "w", "s", " ", "r", "e", "a", "d", ",", " ", "b", "r", "o", "a", "d", "l", "y", ",", "a", "s", " ", "a", "d", "m", "i", "n", " ">>
    /\ parseResult.value = << <<7>>, <<"A", "l", "l", "o", "w", "s", " ", "r", "e", "a", "d", ",", "b", "r", "o", "a", "d", "l", "y", ",", "a", "s", " ", "a", "d", "m", "i", "n">> >>

\* C14 as stated: the description is the fields after the first rejoined
\* with commas, that is the line after its first comma, trimmed.
C14_ExtraFieldsRejoined ==
    \A h \in BOOLEAN, f \in LooseScores, fs \in LooseFieldLists :
        (call \in {"async", "sync"} /\ modelReply = LooseRecord(h, f, fs)) =>
            /\ parseResult.value[1] = ExpectedLooseScore(f)
            /\ parseResult.value[2] = Strip(JoinFields(fs, <<",">>))

\* C15: the table that is written has the six columns privilege_type,
\* privilege_name, privilege_description, privilege_score,
\* suggested_privilege_score, extended_description in that order, and its
\* rows have exactly these cells, whatever the order of the input columns
\* and whether or not the input has other columns.
C15_OutputColumnOrder ==
    mainPc = "written" =>
        /\ output.cols = <<"privilege_type", "privilege_name", "privilege_description",
                           "privilege_score", "suggested_privilege_score",
                           "extended_description">>
        /\ \A i \in 1..Len(output.rows) :
              DOMAIN output.rows[i] =
                  {"privilege_type", "privilege_name", "privilege_description",
                   "privilege_score", "suggested_privilege_score", "extended_description"}

\* A table with a row was written whose input had the required columns in
\* another order and one more column in front of the last of them.
C15_Witness ==
    /\ mainPc = "written"
    /\ Len(output.rows) = 1
    /\ Len(df.cols) = 5
    /\ df.cols[1] = "privilege_score"
    /\ df.cols[4] = "note"
    /\ df.cols[5] = "privilege_type"

\* The phase of row i: 0 pending (no coroutine yet), 1 scheduled, 2
\* completed (its coroutine has returned).
RowPhase(ts, i) ==
    IF i > Len(ts) THEN 0 ELSE IF ts[i].pc = "done" THEN 2 ELSE 1

\* The results collected for row i.
ResultsOf(done, i) == {k \in 1..Len(done) : done[k][1] = i}

\* C16: in every step, the phase of each row stays or goes one forward
\* (pending, scheduled, completed), a row has a result exactly when it is
\* completed, that result is a pair collected once and it does not change
\* afterwards, and the merge is reached only with every row completed.
C16_RowLifecycle ==
    [][\A i \in Rows :
          /\ RowPhase(tasks', i) \in {RowPhase(tasks, i), RowPhase(tasks, i) + 1}
          /\ RowPhase(tasks', i) = 2 <=>
                (Cardinality(ResultsOf(completed', i)) = 1 /\ IsPair(tasks'[i].ret))
          /\ RowPhase(tasks', i) < 2 => ResultsOf(completed', i) = {}
          /\ RowPhase(tasks, i) = 2 =>
                /\ tasks'[i].ret = tasks[i].ret
                /\ ResultsOf(completed', i) = ResultsOf(completed, i)
                /\ \A k \in ResultsOf(completed, i) : completed'[k] = completed[k]
          /\ mainPc' \in {"gathered", "written"} =>
                /\ RowPhase(tasks', i) = 2
                /\ results'[i] = tasks'[i].ret
      ]_vars

\* A row that was retried is completed while a sibling is scheduled and
\* still waits for a slot.
C16_Witness ==
    \E i, j \in Coroutines :
        /\ tasks[i].pc = "done"
        /\ Len(tasks[i].slept) > 0
        /\ IsPair(tasks[i].ret)
        /\ tasks[j].pc = "waiting"

\* C17: the session changes only from none to open and from open to
\* closed, a request is posted only on the open session, the session is
\* closed with coroutines present only when each of them has resolved, and
\* a session that is open is closed later.
C17_SessionOnceForBatch ==
    /\ [][/\ session' # session =>
                \/ session = "none" /\ session' = "open"
                \/ session = "open" /\ session' = "closed"
          /\ \A i \in 1..Len(tasks') :
                (i <= Len(tasks) /\ tasks'[i].posts > tasks[i].posts) =>
                    session = "open" /\ session' = "open"
          /\ (session = "open" /\ session' = "closed") =>
                \/ mainPc = "session_open" /\ tasks = << >>
                \/ /\ Len(tasks) = Len(df.rows)
                   /\ \A i \in 1..Len(tasks) : tasks[i].pc = "done"
         ]_vars
    /\ (session = "open") ~> (session = "closed")

\* The session is closed after a batch in which a row failed on all its
\* attempts and another row was parsed.
C17_Witness ==
    /\ session = "closed"
    /\ mainPc = "written"
    /\ \E i, j \in Coroutines :
          /\ IsErrorResult(tasks[i].ret) /\ tasks[i].posts = 3
          /\ ~IsErrorResult(tasks[j].ret) /\ tasks[j].posts >= 1

\* A character of a regular-expression word: letter, digit, underscore.
IsWordChar(c) ==
    \/ IsDigit(c) \/ c = "_"
    \/ \E k \in 1..Len(UpperChars) : UpperChars[k] = c \/ LowerChars[k] = c

\* At k starts a token of n digits between word boundaries.
IntTokenAt(s, k, n) ==
    /\ k + n - 1 <= Len(s)
    /\ \A j \in k..(k + n - 1) : IsDigit(s[j])
    /\ k = 1 \/ ~IsWordChar(s[k - 1])
    /\ k + n - 1 = Len(s) \/ ~IsWordChar(s[k + n])

HasIntToken(s) == \E k \in 1..Len(s) : \E n \in {1, 2} : IntTokenAt(s, k, n)

\* The value of the first token of one or two digits.
FirstIntToken(s) ==
    LET k == CHOOSE j \in 1..Len(s) :
                 /\ \E n \in {1, 2} : IntTokenAt(s, j, n)
                 /\ \A i \in 1..(j - 1) : \A n \in {1, 2} : ~IntTokenAt(s, i, n)
    IN  IF IntTokenAt(s, k, 2) THEN 10 * DigitValue(s[k]) + DigitValue(s[k + 1])
        ELSE DigitValue(s[k])

\* C18: when no first field of the rows of the reply is an integer and the
\* reply (one without backticks) holds a token of one or two digits, the
\* first of them being in 1..20, get_suggested_score returns that integer.
C18_DigitTokenFallback ==
    (/\ call = "score"
     /\ ~Contains(modelReply, BackTick)
     /\ \A k \in 1..Len(CsvRows(Strip(modelReply))) : ~IsScoreRow(CsvRows(Strip(modelReply))[k])
     /\ HasIntToken(modelReply)
     /\ FirstIntToken(modelReply) \in 1..20) =>
        parseResult.value = <<FirstIntToken(modelReply)>>

\* C19: a coroutine sleeps at most twice, for 1 and then for 2 seconds;
\* while it sleeps, the attempt before failed and fewer than 3 requests
\* were posted; between sleeps it has posted one request more than it has
\* slept, so that after the third request there is no sleep.
C19_BackoffOnlyWhenAttemptsRemain ==
    \A i \in Coroutines :
        /\ Len(tasks[i].slept) <= 2
        /\ \A k \in 1..Len(tasks[i].slept) : tasks[i].slept[k] = k
        /\ \A k \in 1..(Len(tasks[i].slept) - 1) : tasks[i].slept[k] < tasks[i].slept[k + 1]
        /\ tasks[i].pc = "sleeping" =>
              /\ ExchangeFailed(tasks[i].resp)
              /\ tasks[i].posts < 3
              /\ Len(tasks[i].slept) = tasks[i].posts
        /\ tasks[i].pc \in {"in_flight", "done"} =>
              Len(tasks[i].slept) = tasks[i].posts - 1

\* A coroutine failed three times and returned: it slept for 1 and for 2
\* seconds and not after the third failure.
C19_Witness ==
    \E i \in Coroutines :
        /\ tasks[i].pc = "done"
        /\ tasks[i].posts = 3
        /\ ExchangeFailed(tasks[i].resp)
        /\ tasks[i].slept = <<1, 2>>

\* The coroutines that hold a slot: from the first request to the return,
\* sleeps included.
Holders(ts) == {i \in 1..Len(ts) : ts[i].pc \in {"in_flight", "sleeping"}}

\* C20: in every step, the free slots are the cap minus the coroutines
\* between their first request and their return (sleeping ones included);
\* a coroutine is admitted only when fewer than the cap hold a slot; a
\* retry and a sleep leave the free slots as they are; a return frees one
\* slot; after the gather the free slots are the cap again.
C20_SlotHeldAcrossRetries ==
    [][/\ mainPc' \in {"gathering", "gathered", "written"} =>
             /\ semaphore' = MAX_CONCURRENT_REQUESTS - Cardinality(Holders(tasks'))
             /\ semaphore' >= 0
       /\ \A i \in 1..Len(tasks) :
             Len(tasks') = Len(tasks) =>
                /\ (tasks[i].pc \in {"created", "waiting"} /\ tasks'[i].pc = "in_flight") =>
                      /\ Cardinality(Holders(tasks)) < MAX_CONCURRENT_REQUESTS
                      /\ semaphore' = semaphore - 1
                /\ (tasks[i].pc = "in_flight" /\ tasks'[i].pc = "sleeping") =>
                      semaphore' = semaphore
                /\ (tasks[i].pc = "sleeping" /\ tasks'[i].pc = "in_flight") =>
                      semaphore' = semaphore
                /\ (tasks[i].pc # "done" /\ tasks'[i].pc = "done") =>
                      /\ i \in Holders(tasks)
                      /\ semaphore' = semaphore + 1
                /\ tasks[i].pc = "done" => tasks'[i].pc = "done"
       /\ mainPc' \in {"gathered", "written"} => semaphore' = MAX_CONCURRENT_REQUESTS
      ]_vars

\* Both slots are held by sleeping coroutines while a third one waits.
C20_Witness ==
    /\ semaphore = 0
    /\ Cardinality({i \in Coroutines : tasks[i].pc = "sleeping"}) = 2
    /\ \E i \in Coroutines : tasks[i].pc = "waiting"

\* What the claim expects of a line of two fields that is no header.
TwoFieldLines == {<<"7", ",", "o", "k">>, <<"1", "2", ",", "\"", "a", ",", " ", "b", "\"">>, <<"h", "i", "g", "h", ",", "l", "o", "w">>}

ExpectedOfLine(line) ==
    CASE line = <<"7", ",", "o", "k">> -> << <<7>>, <<"o", "k">> >>
      [] line = <<"1", "2", ",", "\"", "a", ",", " ", "b", "\"">> -> << <<12>>, <<"a", ",", " ", "b">> >>
      [] line = <<"h", "i", "g", "h", ",", "l", "o", "w">> -> << << >>, <<"l", "o", "w">> >>

RECURSIVE LinesOf(_)
\* The lines of a text, cut at its newlines.
LinesOf(text) ==
    IF ~Contains(text, "\n") THEN <<text>>
    ELSE LET k == CHOOSE i \in 1..Len(text) :
                      text[i] = "\n" /\ \A j \in 1..(i - 1) : text[j] # "\n"
         IN  <<SubSeq(text, 1, k - 1)>> \o LinesOf(SubSeq(text, k + 1, Len(text)))

\* The lines are those of a reply built line by line.
IsLineReply(ls) == Len(ls) <= MaxLines /\ \A k \in 1..Len(ls) : ls[k] \in ReplyLines

\* The positions of the lines of two fields that are no header.
DataLines(ls) == {k \in 1..Len(ls) : ls[k] \in TwoFieldLines}

\* C21 as amended: for a reply of up to MaxLines lines, the two-field parser
\* returns the fields of the first line that is no header and has two
\* fields, from the csv loop, whatever one-field, empty or header lines
\* come before it; when no such line exists it returns from the split at
\* the first comma if the reply has a comma (a header line of two fields)
\* and from the last return otherwise.
C21_ShortRowsSkipped ==
    LET ls == LinesOf(modelReply)
    IN  (call \in {"async", "sync"} /\ IsLineReply(ls)) =>
            IF DataLines(ls) # {}
            THEN /\ parseResult.value =
                       ExpectedOfLine(ls[CHOOSE k \in DataLines(ls) : \A j \in DataLines(ls) : k <= j])
                 /\ parseResult.path = "csv"
            ELSE parseResult.path =
                     (IF \E k \in 1..Len(ls) : ls[k] = HeaderLine THEN "split" ELSE "whole")

\* The reply has a one-field line first and two records after it; the
\* result is the first record, from the second line.
C21_Witness ==
    /\ call = "async"
    /\ modelReply = <<"o", "k", "\n">> \o <<"1", "2", ",", "\"", "a", ",", " ", "b", "\"">> \o <<"\n">> \o <<"7", ",", "o", "k">>
    /\ parseResult.value = << <<12>>, <<"a", ",", " ", "b">> >>
    /\ parseResult.path = "csv"

\* C21 as stated: the same, and the split at the first comma is used only
\* when no line of the reply has two or more fields.
C21_SplitOnlyWithoutTwoFieldRow ==
    LET ls == LinesOf(modelReply)
    IN  (call \in {"async", "sync"} /\ IsLineReply(ls)) =>
            /\ DataLines(ls) # {} =>
                  parseResult.value =
                      ExpectedOfLine(ls[CHOOSE k \in DataLines(ls) : \A j \in DataLines(ls) : k <= j])
            /\ parseResult.path = "split" =>
                  \A k \in 1..Len(ls) : ls[k] \notin TwoFieldLines /\ ls[k] # HeaderLine

====
